---------------------------- MODULE Spec2Model ----------------------------
(***************************************************************************)
(* A model of SublimeCodeIntel.py: the status-line subsystem               *)
(* (CodeintelHandler.set_status and its two timer callbacks), the session  *)
(* registry (buf_from_view / on_close), the trigger pipeline (on_modified, *)
(* on_pre_save, on_query_completions, the explicit commands, the engine    *)
(* callbacks) and the per-window jump history.                             *)
(*                                                                         *)
(* The editor (sublime) and the engine (codeintel) are outside the         *)
(* repository: the editor is the source of events and of the values the    *)
(* handlers read from it, the engine is a bag of requests in flight that   *)
(* it answers in any order.                                                *)
(***************************************************************************)
EXTENDS Integers, Sequences, FiniteSets, TLC

VARIABLES
    \* the editor
    active_view,     \* sublime.active_window().active_view(): a view id, or NoView
    open_views,      \* the views that are open
    view_syntax,     \* view -> the name of the view's syntax
    view_doc,        \* view -> the snapshot (file name, text, selection) it shows
    view_status,     \* the editor's status line: view -> lid -> text, or NoText
    has_show_popup,  \* hasattr(view, 'show_popup'): fixed by the editor's build
    \* the plugin
    settings,        \* Settings.settings
    status_msg,      \* CodeintelHandler.status_msg: lid -> [ltype, msg, order]
    status_lineno,   \* CodeintelHandler.status_lineno: lid -> row, or NoLine
    jump_history,    \* CodeintelHandler.jump_history_by_window: window -> deque, or NoDeque
    timers,          \* set_status callbacks handed to sublime.set_timeout, not yet run
    deferred,        \* the other callbacks handed to sublime.set_timeout(fn, 0), in order
    \* the engine
    ci_languages,    \* ci.languages
    ci_buffers,      \* ci.buffers: view id -> CodeIntelBuffer object, or NoBuf
    heap,            \* the CodeIntelBuffer objects created so far
    engine,          \* the requests the engine has not answered yet
    \* bookkeeping of the verification
    nreq,            \* number of engine requests issued so far
    ncalls,          \* number of set_status calls made so far
    lastReq,         \* lid -> the latest call (message, display callbacks) and display
    ev               \* the operation the last step performed and the calls it made

editorVars == <<active_view, open_views, view_syntax, view_doc, has_show_popup>>
statusVars == <<status_msg, status_lineno, view_status, timers, ncalls, lastReq>>
sessionVars == <<settings, jump_history, deferred, ci_languages, ci_buffers, heap,
                 engine, nreq>>

vars == <<editorVars, statusVars, sessionVars, ev>>

-----------------------------------------------------------------------------
(* Bounds of the model *)

\* set_status calls in a behaviour
MaxCalls == 3
\* engine requests the event handlers and commands issue in a behaviour
MaxReq == 2
\* engine requests in a behaviour of the language gate
MaxGateReq == 1
\* definitions asked for in the long walk of SpecHistory
MaxGoto == 66
\* entries in a list of completions given to the formatting
MaxList == 2

Views == {1, 2}
\* the view property's None: no window, or a window without views
NoView == 0
\* every view is in a window of its own
Windows == Views
WindowOf(v) == v

-----------------------------------------------------------------------------
(* Text *)

\* The characters of the model in code point order; a str is a sequence of them.
Alphabet == << "\t", "\n", " ", "$", "(", ")", ",", ".", "0", "1", "2", "=",
               "A", "B", "C", "D", "E", "F", "G", "H", "I", "J", "K", "L", "M",
               "N", "O", "P", "Q", "R", "S", "T", "U", "V", "W", "X", "Y", "Z",
               "\\", "_",
               "a", "b", "c", "d", "e", "f", "g", "h", "i", "j", "k", "l", "m",
               "n", "o", "p", "q", "r", "s", "t", "u", "v", "w", "x", "y", "z",
               "e'" >>

Ord(c) == CHOOSE i \in 1..Len(Alphabet) : Alphabet[i] = c

\* len(c.encode('utf-8')): "e'" stands for U+00E9, two bytes in UTF-8
Utf8Width(c) == IF c = "e'" THEN 2 ELSE 1

RECURSIVE Utf8Len(_)
Utf8Len(s) == IF s = <<>> THEN 0 ELSE Utf8Width(Head(s)) + Utf8Len(Tail(s))

\* content[a:b] for 0 <= a, with Python's clipping of b
Slice(s, a, b) == SubSeq(s, a + 1, IF b > Len(s) THEN Len(s) ELSE b)

\* pos2bytes (line 501)
pos2bytes(content, pos) == Utf8Len(Slice(content, 0, pos))

\* the editor snapshots a view can show: file_name(), the text, and sel()[0].end()
\* in characters (NoSel: sel() is empty)
NoSel == -1
NoFile == << "<None>" >>
Docs == << [file |-> NoFile, text |-> <<"f", "(">>, sel |-> 2],
           [file |-> <<"a">>, text |-> <<"e'", "\n", "x">>, sel |-> 2],
           [file |-> <<"a">>, text |-> <<"e'", "\n", "x">>, sel |-> 3],
           [file |-> <<"a">>, text |-> <<"x">>, sel |-> NoSel],
           [file |-> <<"a">>, text |-> <<"f", "(", "1", ",", " ", ")">>, sel |-> 5],
           [file |-> <<"a">>, text |-> <<"f", "(", "1", ",", " ">>, sel |-> 5],
           [file |-> <<"a">>,
            text |-> <<"f", "(", "g", "(", "1", ",", "2", ")", ",", " ", ")">>,
            sel |-> 10],
           [file |-> <<"a">>, text |-> <<"f", "(", "1", ",", "2">>, sel |-> 5],
           [file |-> <<"a">>, text |-> <<"f", "(", ")">>, sel |-> 2] >>
DocIds == 1..Len(Docs)
\* the snapshots with the cursor in the argument list of a call
TipDocIds == {1} \cup (5..Len(Docs))

\* view.line(sel).begin(): the start of the line the cursor is in
RECURSIVE LineBegin(_, _)
LineBegin(text, pos) ==
    IF pos = 0 \/ text[pos] = "\n" THEN pos ELSE LineBegin(text, pos - 1)

\* view.rowcol(pos)
RECURSIVE Row(_, _)
Row(text, pos) ==
    IF pos = 0 THEN 0
    ELSE Row(text, pos - 1) + (IF text[pos] = "\n" THEN 1 ELSE 0)
Col(text, pos) == pos - LineBegin(text, pos)

-----------------------------------------------------------------------------
(* Strings *)

Upper == << "A", "B", "C", "D", "E", "F", "G", "H", "I", "J", "K", "L", "M",
            "N", "O", "P", "Q", "R", "S", "T", "U", "V", "W", "X", "Y", "Z" >>
Lower == << "a", "b", "c", "d", "e", "f", "g", "h", "i", "j", "k", "l", "m",
            "n", "o", "p", "q", "r", "s", "t", "u", "v", "w", "x", "y", "z" >>
IsUpper(c) == \E i \in 1..Len(Upper) : Upper[i] = c
IsLower(c) == \E i \in 1..Len(Lower) : Lower[i] = c
ToLower(c) == IF IsUpper(c) THEN Lower[CHOOSE i \in 1..Len(Upper) : Upper[i] = c] ELSE c
ToUpper(c) == IF IsLower(c) THEN Upper[CHOOSE i \in 1..Len(Lower) : Lower[i] = c] ELSE c

\* s.lower()
StrLower(s) == [i \in 1..Len(s) |-> ToLower(s[i])]

\* s.title(): a cased character is upper case after an uncased one, else lower case
StrTitle(s) ==
    [i \in 1..Len(s) |->
        IF i = 1 \/ ~(IsUpper(s[i - 1]) \/ IsLower(s[i - 1]))
        THEN ToUpper(s[i]) ELSE ToLower(s[i])]

\* a < b for two str: by code points, a proper prefix first
RECURSIVE StrLess(_, _)
StrLess(a, b) ==
    IF b = <<>> THEN FALSE
    ELSE IF a = <<>> THEN TRUE
    ELSE IF Head(a) # Head(b) THEN Ord(Head(a)) < Ord(Head(b))
    ELSE StrLess(Tail(a), Tail(b))

\* sub in s
Contains(s, sub) ==
    \E i \in 0..(Len(s) - Len(sub)) : SubSeq(s, i + 1, i + Len(sub)) = sub

\* s.replace("$", "\\$")
RECURSIVE EscapeDollar(_)
EscapeDollar(s) ==
    IF s = <<>> THEN <<>>
    ELSE (IF Head(s) = "$" THEN <<"\\", "$">> ELSE <<Head(s)>>) \o EscapeDollar(Tail(s))

S_import == <<"i", "m", "p", "o", "r", "t">>
S_attribute == <<"a", "t", "t", "r", "i", "b", "u", "t", "e">>
S_variable == <<"v", "a", "r", "i", "a", "b", "l", "e">>
S_function == <<"f", "u", "n", "c", "t", "i", "o", "n">>
S_class == <<"c", "l", "a", "s", "s">>

-----------------------------------------------------------------------------
(* Completions: format_completions_by_language (lines 580-624) *)

\* An entry c is a tuple <<kind, name>> or <<kind, name, description>>:
\* c[1], c[2], c[3] are Python's c[0], c[1], c[2].

get_desc(c) == IF Len(c) > 2 THEN c[3] ELSE c[2]

get_type(c) == StrTitle(c[1])

\* function = None if 'import ' in text_in_current_line else 'function'
IsFunction(c, line) == ~Contains(line, S_import \o <<" ">>) /\ c[1] = S_function

get_name(c, lang, type, line) ==
    IF lang = "PHP" /\ type # "object-members"
    THEN EscapeDollar((IF c[1] = S_variable THEN <<"$">> ELSE <<>>) \o c[2])
             \o (IF IsFunction(c, line) THEN <<"(", "$", "0", ")">> ELSE <<>>)
    ELSE IF lang = "ECMAScript"
    THEN EscapeDollar(c[2])
             \o (IF c[1] = S_attribute THEN <<"=", "$", "0", " ">>
                 ELSE IF IsFunction(c, line) THEN <<"(", "$", "0", ")">> ELSE <<>>)
    ELSE EscapeDollar(c[2])
             \o (IF IsFunction(c, line) THEN <<"(", "$", "0", ")">> ELSE <<>>)

\* the first component of sorter(c)
CategoryKey(c) ==
    LET k == StrLower(c[1])
    IN  IF k = S_import THEN <<"_">>
        ELSE IF k = S_attribute \/ k = S_variable THEN <<"_", "_">>
        ELSE IF k = S_function THEN <<"_", "_", "_">>
        ELSE c[1]

\* sorter(c) < sorter(d): the pairs (category, name) compared as Python tuples
SorterLess(c, d) ==
    \/ StrLess(CategoryKey(c), CategoryKey(d))
    \/ CategoryKey(c) = CategoryKey(d) /\ StrLess(c[2], d[2])

\* c put into the sorted list s after the entries that are not greater (sorted is stable)
RECURSIVE InsertSorted(_, _)
InsertSorted(s, c) ==
    IF s = <<>> THEN <<c>>
    ELSE IF SorterLess(c, Head(s)) THEN <<c>> \o s
    ELSE <<Head(s)>> \o InsertSorted(Tail(s), c)

RECURSIVE Sorted(_)
\* sorted(cplns, key=sorter)
Sorted(cplns) ==
    IF cplns = <<>> THEN <<>>
    ELSE InsertSorted(Sorted(SubSeq(cplns, 1, Len(cplns) - 1)), cplns[Len(cplns)])

\* the list returned: pairs (label, insertion text); the label is kept as the
\* pair (description, type) that '%s\t<<%s>>' is filled with
format_completions_by_language(cplns, lang, line, type) ==
    LET s == Sorted(cplns)
    IN  [i \in 1..Len(s) |->
            << <<get_desc(s[i]), get_type(s[i])>>, get_name(s[i], lang, type, line) >>]

-----------------------------------------------------------------------------
(* Values *)

\* Python's None where a message is expected: a value no str equals.
None == << "<None>" >>
NoText == << "<erased>" >>
\* lid not in status_lineno
NoLine == -1

Lids == {"SublimeCodeIntel", "SublimeCodeIntel Notification"}
LTypes == {"info", "debug"}

\* The messages callers pass, as sequences of characters, before msg.strip().
RawMsgs == { <<"A", ".">>, <<" ", "A", ".", " ">>, <<"B">>, <<>>, <<" ">> }

IsSpace(c) == c \in {" ", "\t", "\n"}

RECURSIVE LStrip(_)
LStrip(s) == IF s # <<>> /\ IsSpace(Head(s)) THEN LStrip(Tail(s)) ELSE s

RECURSIVE RStrip(_)
RStrip(s) ==
    IF s # <<>> /\ IsSpace(s[Len(s)]) THEN RStrip(SubSeq(s, 1, Len(s) - 1)) ELSE s

\* msg.strip()
Strip(s) == RStrip(LStrip(s))

RECURSIVE RStripDot(_)
\* msg.rstrip('.')
RStripDot(s) ==
    IF s # <<>> /\ s[Len(s)] = "." THEN RStripDot(SubSeq(s, 1, Len(s) - 1)) ELSE s

\* 'warning' in lid
IsWarning(lid) == lid \in {"warning"}

\* "%s %s: %s" % (lid, ltype.capitalize(), msg.rstrip('.'))
StatusText(lid, ltype, msg) == <<lid, ltype, RStripDot(msg)>>

\* CodeintelHandler.view: the view a handler was built for (a TextCommand's
\* constructor assigns self.view, which the setter stores in _view), else the
\* active view of the active window.  hv = NoView stands for the event listener.
HandlerView(hv) == IF hv # NoView THEN hv ELSE active_view

\* view.rowcol(view_sel[0].end())[0] if view_sel else 0
LineNo(v) ==
    LET d == Docs[view_doc[v]]
    IN  IF d.sel = NoSel THEN 0 ELSE Row(d.text, d.sel)

-----------------------------------------------------------------------------
(* The status-line subsystem *)

\* a set_status that starts every sequence again
NextOrder_Restart(lid) == 1

\* CodeintelHandler.status_msg[lid][2] += 1 (line 459)
NextOrder(lid) == status_msg[lid].order + 1

\* a display callback that shows the messages of every kind
IsShownKind_Every(ltype) == TRUE

\* if ltype != 'debug' (line 477)
IsShownKind(ltype) == ltype # "debug"

\* a set_status that never returns early
IsDuplicate_Never(msg, lid) == FALSE

\* an erase callback that compares nothing
EraseAllowed_Always(t) == TRUE

\* a dedup against the message requested last, displayed or not
IsDuplicate_LastRequested(msg, lid) == msg = lastReq[lid].msg

\* the dedup test of set_status (line 457)
IsDuplicate(msg, lid) == msg = status_msg[lid].msg

\* the calls set_status makes on the lock and the editor, in order (lines 454-462 and
\* 495-499): the lock is released by the finally clause before anything is scheduled
SetStatusSteps(msg, lid) ==
    <<"acquire", "release">> \o
        (IF IsDuplicate(msg, lid) THEN <<>>
         ELSE IF msg # <<>> THEN <<"set_timeout", "set_timeout">>
         ELSE <<"set_timeout">>)

\* set_status(ltype, msg, lid=lid) called on a handler whose view is HandlerView(hv).
\* lastReq keeps, of the calls on the slot, the message of the latest (msg), the
\* number of display callbacks it scheduled (nsched) and the message of the latest
\* call that went past the dedup test (smsg); the callbacks keep in it the sequence
\* number of the call whose display callback wrote the recorded message (shown, 0
\* when the slot records none).
SetStatus(hv, ltype, raw, lid) ==
    LET view == HandlerView(hv)
        msg == Strip(raw)
        order == NextOrder(lid)
        display == [k |-> "display", lid |-> lid, msg |-> msg, ltype |-> ltype,
                    order |-> order, view |-> view]
        erase == [k |-> "erase", lid |-> lid, msg |-> msg, ltype |-> ltype,
                  order |-> order, view |-> view]
    IN  /\ ncalls < MaxCalls
        /\ view # NoView
        /\ ncalls' = ncalls + 1
        /\ IF IsDuplicate(msg, lid)
           THEN /\ UNCHANGED <<status_msg, timers>>
                /\ lastReq' = [lastReq EXCEPT ![lid].msg = msg, ![lid].nsched = 0]
           ELSE /\ status_msg' = [status_msg EXCEPT ![lid].order = order]
                /\ timers' = timers \cup
                       (IF msg # <<>> THEN {display, erase} ELSE {erase})
                /\ lastReq' = [lastReq EXCEPT ![lid] =
                       [msg |-> msg, nsched |-> IF msg # <<>> THEN 1 ELSE 0,
                        smsg |-> msg, shown |-> lastReq[lid].shown]]
        /\ ev' = [op |-> "set_status", lid |-> lid, msg |-> msg, ltype |-> ltype,
                  dedup |-> IsDuplicate(msg, lid), same |-> lastReq[lid].msg = msg,
                  steps |-> SetStatusSteps(msg, lid)]
        /\ UNCHANGED <<status_lineno, view_status, editorVars, sessionVars>>

\* a display callback that does not compare sequence numbers
DisplayAllowed_NoOrderCheck(t) == t.msg # status_msg[t.lid].msg

\* a display callback that always writes
DisplayAllowed_Always(t) == TRUE

\* the test of _set_status (line 472)
DisplayAllowed(t) ==
    /\ t.msg # status_msg[t.lid].msg
    /\ t.order = status_msg[t.lid].order

\* the calls _set_status makes on the lock and the editor, in order (lines 470-482)
DisplaySteps(t) ==
    <<"acquire">> \o
        (IF DisplayAllowed(t)
         THEN <<"log">> \o (IF IsShownKind(t.ltype) THEN <<"view.set_status">> ELSE <<>>)
         ELSE <<>>) \o
    <<"release">>

\* the timer runs _set_status
FireDisplay(t) ==
    /\ t \in timers
    /\ t.k = "display"
    /\ timers' = timers \ {t}
    /\ IF DisplayAllowed(t)
       THEN /\ IF IsShownKind(t.ltype)
               THEN /\ view_status' = [view_status EXCEPT ![t.view][t.lid] =
                                           StatusText(t.lid, t.ltype, t.msg)]
                    /\ status_msg' = [status_msg EXCEPT ![t.lid] =
                           [ltype |-> t.ltype, msg |-> t.msg, order |-> t.order]]
                    /\ lastReq' = [lastReq EXCEPT ![t.lid].shown = t.order]
               ELSE UNCHANGED <<view_status, status_msg, lastReq>>
            /\ IF ~IsWarning(t.lid)
               THEN status_lineno' = [status_lineno EXCEPT ![t.lid] = LineNo(t.view)]
               ELSE UNCHANGED status_lineno
       ELSE UNCHANGED <<view_status, status_msg, status_lineno, lastReq>>
    /\ ev' = [op |-> "display", lid |-> t.lid, msg |-> t.msg, ltype |-> t.ltype,
              order |-> t.order, steps |-> DisplaySteps(t)]
    /\ UNCHANGED <<ncalls, editorVars, sessionVars>>

\* the test of _erase_status (line 487)
EraseAllowed(t) == t.msg = status_msg[t.lid].msg

\* the calls _erase_status makes on the lock and the editor, in order (lines 485-493)
EraseSteps(t) ==
    <<"acquire">> \o (IF EraseAllowed(t) THEN <<"view.erase_status">> ELSE <<>>) \o
    <<"release">>

\* the timer runs _erase_status
FireErase(t) ==
    /\ t \in timers
    /\ t.k = "erase"
    /\ timers' = timers \ {t}
    /\ IF EraseAllowed(t)
       THEN /\ view_status' = [view_status EXCEPT ![t.view][t.lid] = NoText]
            /\ status_msg' = [status_msg EXCEPT ![t.lid].msg = None]
            /\ status_lineno' = [status_lineno EXCEPT ![t.lid] = NoLine]
            /\ lastReq' = [lastReq EXCEPT ![t.lid].shown = 0]
       ELSE UNCHANGED <<view_status, status_msg, status_lineno, lastReq>>
    /\ ev' = [op |-> "erase", lid |-> t.lid, msg |-> t.msg, ltype |-> t.ltype,
              order |-> t.order, steps |-> EraseSteps(t)]
    /\ UNCHANGED <<ncalls, editorVars, sessionVars>>

-----------------------------------------------------------------------------
(* Settings (class Settings, lines 93-349) *)

\* settings.get('syntax_map', {}).get(language, language)
SyntaxMap(language) == IF language = "Python Django" THEN "Python" ELSE language

Syntaxes == {"Python Django", "PHP", "Plain text"}
NoLang == "<None>"

\* the configurations the user's settings file can hold
SettingsChoices ==
    << [live |-> TRUE, disable |-> FALSE, disabled_languages |-> {},
        language_settings |-> <<>>],
       [live |-> FALSE, disable |-> FALSE, disabled_languages |-> {},
        language_settings |-> [Python |-> [live |-> TRUE]]],
       [live |-> TRUE, disable |-> FALSE, disabled_languages |-> {"PHP"},
        language_settings |-> [Python |-> [live |-> FALSE]]],
       [live |-> TRUE, disable |-> TRUE, disabled_languages |-> {},
        language_settings |-> <<>>],
       [live |-> TRUE, disable |-> FALSE, disabled_languages |-> {},
        language_settings |-> [PHP |-> [disable |-> TRUE]]] >>

\* Settings.get (lines 115-120) of 'live' and '@disable', both with default False;
\* lang = NoLang when the caller passes none
SettingsGet(setting, lang) ==
    LET ls == settings.language_settings
    IN  IF lang \in DOMAIN ls /\ setting \in DOMAIN ls[lang]
        THEN ls[lang][setting]
        ELSE settings[setting]

\* Settings.get_prefs (lines 186-229): the language's own settings are copied in
get_prefs(lang) ==
    LET ls == settings.language_settings
    IN  [lang |-> lang,
         own |-> IF lang \in DOMAIN ls
                    /\ lang \notin settings.disabled_languages
                    /\ ~("disable" \in DOMAIN ls[lang] /\ ls[lang].disable)
                 THEN ls[lang] ELSE <<>>]

-----------------------------------------------------------------------------
(* The session registry: buf_from_view (lines 504-578) *)

\* ci.buffers has no entry / buf_from_view returns None
NoBuf == 0
\* buf.cplns is None, or a list
NoCplns == [some |-> FALSE, list |-> <<>>]
Cplns(list) == IF list = <<>> THEN NoCplns ELSE [some |-> TRUE, list |-> list]

guess_language(v) ==
    LET lang == SyntaxMap(view_syntax[v])
    IN  IF lang \in settings.disabled_languages THEN NoLang
        ELSE IF SettingsGet("disable", lang) THEN NoLang
        ELSE lang

\* a gate that does not ask the engine for its languages
BufAvailable_AnyLanguage(v, d) ==
    /\ v # NoView
    /\ Docs[d].sel # NoSel
    /\ guess_language(v) # NoLang
    /\ SettingsGet("live", guess_language(v))

\* the tests buf_from_view makes before it touches the registry (lines 515-532)
BufAvailable(v, d) ==
    /\ v # NoView
    /\ Docs[d].sel # NoSel
    /\ guess_language(v) # NoLang
    /\ guess_language(v) \in ci_languages
    /\ SettingsGet("live", guess_language(v))

\* a lookup that never finds the view's Buffer
LookupHit_Never(v) == FALSE

\* try: buf = ci.buffers[vid] (line 538) succeeds
LookupHit(v) == ci_buffers[v] # NoBuf

\* the fields buf_from_view assigns (lines 544-576)
Refreshed(buf, v, d) ==
    LET doc == Docs[d]
        lpos == LineBegin(doc.text, doc.sel)
    IN  [buf EXCEPT
            !.lang = guess_language(v),
            !.path = IF doc.file # NoFile THEN doc.file
                     ELSE <<"<", "U", "n", "s", "a", "v", "e", "d", ">">>,
            !.text = doc.text,
            !.pos = pos2bytes(doc.text, doc.sel),
            !.text_in_current_line = Slice(doc.text, lpos, doc.sel + 1),
            !.original_pos = doc.sel,
            !.prefs = get_prefs(guess_language(v))]

\* CodeIntelBuffer(ci, vid=vid): the fields of a new object, before they are assigned
NewBuffer(v) ==
    [vid |-> v, lang |-> NoLang, path |-> NoFile, text |-> <<>>, pos |-> 0,
     text_in_current_line |-> <<>>, original_pos |-> 0, prefs |-> <<>>,
     cplns |-> NoCplns]

\* buf_from_view(view) for a view that shows snapshot d: the object returned (buf),
\* and the registry and the objects after the call
buf_from_view(v, d) ==
    IF ~BufAvailable(v, d)
    THEN [buf |-> NoBuf, buffers |-> ci_buffers, heap |-> heap]
    ELSE IF LookupHit(v)
    THEN [buf |-> ci_buffers[v], buffers |-> ci_buffers,
          heap |-> [heap EXCEPT ![ci_buffers[v]] = Refreshed(@, v, d)]]
    ELSE [buf |-> Len(heap) + 1,
          buffers |-> [ci_buffers EXCEPT ![v] = Len(heap) + 1],
          heap |-> Append(heap, Refreshed(NewBuffer(v), v, d))]

\* buf.trg_from_pos, buf.defn_trg_from_pos, buf.scan_document: a request to the engine
Request(kind, buf, hv) == [id |-> nreq + 1, kind |-> kind, buf |-> buf, h |-> hv]

\* a handler that called buf_from_view (result r) and, given a buffer, the engine
Dispatch(r, kind, hv) ==
    /\ ci_buffers' = r.buffers
    /\ heap' = r.heap
    /\ IF r.buf # NoBuf
       THEN /\ engine' = engine \cup {Request(kind, r.buf, hv)}
            /\ nreq' = nreq + 1
       ELSE UNCHANGED <<engine, nreq>>

-----------------------------------------------------------------------------
(* The trigger pipeline: the editor's events (class SublimeCodeIntel) *)

BracketSnippets ==
    {"(${0:$SELECTION})", "[${0:$SELECTION}]", "{${0:$SELECTION}}", "`${0:$SELECTION}`",
     "\"${0:$SELECTION}\"", "'${0:$SELECTION}'",
     "($0)", "[$0]", "{$0}", "`$0`", "\"$0\"", "'$0'"}

\* what view.command_history gives on_modified: has = FALSE when the view has no
\* command_history; redo is TRUE when redo_command[1] is not None; prev is
\* previous_command as <<name, characters or contents>>; before is
\* before_previous_command[0]
NoHistory == [has |-> FALSE]
Histories(prevs, befores) ==
    {NoHistory} \cup
    [has : {TRUE}, redo : BOOLEAN, prev : prevs, before : befores]

PrevCommands ==
    { <<"insert", <<"a">> >>, <<"insert", <<"a", "\n">> >>,
      <<"insert_completion", <<>> >>, <<"paste", <<>> >>,
      <<"codeintel_complete_commit", <<>> >>,
      <<"insert_snippet", "($0)">>, <<"insert_snippet", "${1:x}">>,
      <<"commit_completion", <<>> >>, <<"insert_best_completion", <<>> >>,
      <<"left_delete", <<>> >> }
BeforeCommands == {"insert", "paste", "move"}

\* a condition that does not look at the redo command
ShouldTrigger_IgnoreRedo(h) ==
    \/ ~h.has
    \/ h.prev[1] = "insert" /\ h.prev[2][Len(h.prev[2])] \notin {"\n", "\t"}
    \/ h.prev[1] \in {"insert_completion", "paste", "codeintel_complete_commit"}
    \/ h.prev[1] = "insert_snippet" /\ h.prev[2] \in BracketSnippets
    \/ /\ h.before \in {"insert", "paste"}
       /\ h.prev[1] \in {"commit_completion", "insert_completion",
                         "insert_best_completion"}

\* a condition without the plain insert
ShouldTrigger_NoInsert(h) ==
    \/ ~h.has
    \/ /\ ~h.redo
       /\ \/ h.prev[1] \in {"insert_completion", "paste", "codeintel_complete_commit"}
          \/ h.prev[1] = "insert_snippet" /\ h.prev[2] \in BracketSnippets
          \/ /\ h.before \in {"insert", "paste"}
             /\ h.prev[1] \in {"commit_completion", "insert_completion",
                               "insert_best_completion"}

\* the condition of line 874
ShouldTrigger(h) ==
    \/ ~h.has
    \/ /\ ~h.redo
       /\ \/ h.prev[1] = "insert" /\ h.prev[2][Len(h.prev[2])] \notin {"\n", "\t"}
          \/ h.prev[1] \in {"insert_completion", "paste", "codeintel_complete_commit"}
          \/ h.prev[1] = "insert_snippet" /\ h.prev[2] \in BracketSnippets
          \/ /\ h.before \in {"insert", "paste"}
             /\ h.prev[1] \in {"commit_completion", "insert_completion",
                               "insert_best_completion"}

\* view.substr(sublime.Region(pos - 1, pos))
CurrentChar(d) ==
    LET doc == Docs[d] IN IF doc.sel >= 1 THEN <<doc.text[doc.sel]>> ELSE <<>>

\* the tests on_modified makes before it reads the command history (lines 851-863)
ModifiedEligible(d) ==
    /\ Docs[d].sel # NoSel
    /\ ~(SettingsGet("disable", NoLang) \/ ~SettingsGet("live", NoLang))
    /\ CurrentChar(d) \notin {<<>>, <<"\n">>, <<"\t">>}

\* an edit leaves view v showing snapshot d, and the editor calls on_modified(view)
OnModified(v, d, h) ==
    /\ v \in open_views
    /\ view_doc' = [view_doc EXCEPT ![v] = d]
    /\ IF ModifiedEligible(d) /\ ShouldTrigger(h)
       THEN /\ Dispatch(buf_from_view(v, d), "trg_from_pos", NoView)
            /\ ev' = [op |-> "on_modified", view |-> v, hist |-> h, called |-> TRUE,
                      buf |-> buf_from_view(v, d).buf]
       ELSE /\ UNCHANGED <<ci_buffers, heap, engine, nreq>>
            /\ ev' = [op |-> "on_modified", view |-> v, hist |-> h, called |-> FALSE,
                      buf |-> NoBuf]
    /\ UNCHANGED <<active_view, open_views, view_syntax, has_show_popup, statusVars,
                   settings, jump_history, deferred, ci_languages>>

\* an on_pre_save that does not ask whether the view is dirty
OnPreSave_Always(v, dirty) ==
    /\ v \in open_views
    /\ Dispatch(buf_from_view(v, view_doc[v]), "scan_document", NoView)
    /\ ev' = [op |-> "on_pre_save", view |-> v, dirty |-> dirty,
              buf |-> buf_from_view(v, view_doc[v]).buf]
    /\ UNCHANGED <<editorVars, statusVars, settings, jump_history, deferred,
                   ci_languages>>

\* on_pre_save(view) (lines 840-844); dirty is view.is_dirty()
OnPreSave(v, dirty) ==
    /\ v \in open_views
    /\ IF dirty
       THEN /\ Dispatch(buf_from_view(v, view_doc[v]), "scan_document", NoView)
            /\ ev' = [op |-> "on_pre_save", view |-> v, dirty |-> dirty,
                      buf |-> buf_from_view(v, view_doc[v]).buf]
       ELSE /\ UNCHANGED <<ci_buffers, heap, engine, nreq>>
            /\ ev' = [op |-> "on_pre_save", view |-> v, dirty |-> dirty, buf |-> NoBuf]
    /\ UNCHANGED <<editorVars, statusVars, settings, jump_history, deferred,
                   ci_languages>>

\* a removal by del ci.buffers[vid], which raises KeyError without an entry
RegistryPop_Del(v) ==
    [buffers |-> [ci_buffers EXCEPT ![v] = NoBuf], raised |-> ci_buffers[v] = NoBuf]

\* ci.buffers.pop(vid, None) (line 848)
RegistryPop(v) == [buffers |-> [ci_buffers EXCEPT ![v] = NoBuf], raised |-> FALSE]

\* on_close(view) (lines 846-848): the editor has closed the view
OnClose(v) ==
    /\ v \in open_views
    /\ open_views' = open_views \ {v}
    /\ active_view' = IF active_view # v THEN active_view
                      ELSE IF open_views \ {v} = {} THEN NoView
                      ELSE CHOOSE w \in open_views \ {v} : TRUE
    /\ ci_buffers' = RegistryPop(v).buffers
    /\ ev' = [op |-> "on_close", view |-> v, was_open |-> TRUE,
              raised |-> RegistryPop(v).raised]
    /\ UNCHANGED <<view_syntax, view_doc, has_show_popup, statusVars, settings,
                   jump_history, deferred, ci_languages, heap, engine, nreq>>

\* a query that hands the pending completions out and keeps them in the slot
TakeCplns_Keep(buf) == [ret |-> buf.cplns, buf |-> buf]

\* cplns, buf.cplns = getattr(buf, 'cplns', None), None (line 898)
TakeCplns(buf) == [ret |-> buf.cplns, buf |-> [buf EXCEPT !.cplns = NoCplns]]

\* on_close(view) called once more for a view that is closed already
OnCloseAgain(v) ==
    /\ v \in Views \ open_views
    /\ ci_buffers' = RegistryPop(v).buffers
    /\ ev' = [op |-> "on_close", view |-> v, was_open |-> FALSE,
              raised |-> RegistryPop(v).raised]
    /\ UNCHANGED <<editorVars, statusVars, settings, jump_history, deferred,
                   ci_languages, heap, engine, nreq>>

\* on_query_completions(view, prefix, locations) (lines 895-899); ev.ret is what
\* the editor gets back
OnQueryCompletions(v) ==
    LET r == buf_from_view(v, view_doc[v])
    IN  /\ v \in open_views
        /\ ci_buffers' = r.buffers
        /\ IF r.buf # NoBuf
           THEN /\ heap' = [r.heap EXCEPT ![r.buf] = TakeCplns(@).buf]
                /\ ev' = [op |-> "on_query_completions", view |-> v, buf |-> r.buf,
                          ret |-> TakeCplns(r.heap[r.buf]).ret]
           ELSE /\ heap' = r.heap
                /\ ev' = [op |-> "on_query_completions", view |-> v, buf |-> NoBuf,
                          ret |-> NoCplns]
        /\ UNCHANGED <<editorVars, statusVars, settings, jump_history, deferred,
                       ci_languages, engine, nreq>>

\* the commands codeintel_auto_complete (lines 911-918) and goto_python_definition
\* (lines 921-928), run on view v: self.view is the view the command was built for
RunCommand(v, name) ==
    /\ v \in open_views
    /\ name \in {"trg_from_pos", "defn_trg_from_pos"}
    /\ Dispatch(buf_from_view(HandlerView(v), view_doc[HandlerView(v)]), name, v)
    /\ ev' = [op |-> "command", view |-> v, name |-> name,
              buf |-> buf_from_view(HandlerView(v), view_doc[HandlerView(v)]).buf]
    /\ UNCHANGED <<editorVars, statusVars, settings, jump_history, deferred,
                   ci_languages>>

-----------------------------------------------------------------------------
(* The editor and the settings file *)

\* the user gives the focus to another open view
SwitchView(v) ==
    /\ v \in open_views
    /\ v # active_view
    /\ active_view' = v
    /\ ev' = [op |-> "switch"]
    /\ UNCHANGED <<open_views, view_syntax, view_doc, has_show_popup, statusVars,
                   sessionVars>>

\* the user gives the view another syntax
SetSyntax(v, syn) ==
    /\ v \in open_views
    /\ syn # view_syntax[v]
    /\ view_syntax' = [view_syntax EXCEPT ![v] = syn]
    /\ ev' = [op |-> "set_syntax"]
    /\ UNCHANGED <<active_view, open_views, view_doc, has_show_popup, statusVars,
                   sessionVars>>

\* Settings.on_update (lines 231-298): the settings are read again
SettingsUpdate(i) ==
    /\ settings # SettingsChoices[i]
    /\ settings' = SettingsChoices[i]
    /\ ev' = [op |-> "on_update"]
    /\ UNCHANGED <<editorVars, statusVars, jump_history, deferred, ci_languages,
                   ci_buffers, heap, engine, nreq>>

\* the engine starts and reports its languages, or stops
EngineLanguages(ls) ==
    /\ ls # ci_languages
    /\ ci_languages' = ls
    /\ ev' = [op |-> "languages"]
    /\ UNCHANGED <<editorVars, statusVars, settings, jump_history, deferred,
                   ci_buffers, heap, engine, nreq>>

-----------------------------------------------------------------------------
(* Call tips: the text computed by _set_call_tip_info (lines 658-702) *)

\* the index of the last ch in s, or 0
RECURSIVE LastIndex(_, _)
LastIndex(s, ch) ==
    IF s = <<>> THEN 0 ELSE IF s[Len(s)] = ch THEN Len(s)
    ELSE LastIndex(SubSeq(s, 1, Len(s) - 1), ch)

\* the index of the first ch in s, or 0
FirstIndex(s, ch) ==
    IF \E i \in 1..Len(s) : s[i] = ch
    THEN CHOOSE i \in 1..Len(s) : s[i] = ch /\ \A j \in 1..(i - 1) : s[j] # ch
    ELSE 0

\* s.split(ch)
RECURSIVE Split(_, _)
Split(s, ch) ==
    LET i == FirstIndex(s, ch)
    IN  IF i = 0 THEN <<s>>
        ELSE <<SubSeq(s, 1, i - 1)>> \o Split(SubSeq(s, i + 1, Len(s)), ch)

\* s.replace(' ', '')
RECURSIVE RemoveSpaces(_)
RemoveSpaces(s) ==
    IF s = <<>> THEN <<>>
    ELSE (IF Head(s) = " " THEN <<>> ELSE <<Head(s)>>) \o RemoveSpaces(Tail(s))

\* s.count(ch)
RECURSIVE Count(_, _)
Count(s, ch) ==
    IF s = <<>> THEN 0 ELSE (IF Head(s) = ch THEN 1 ELSE 0) + Count(Tail(s), ch)

\* lines 659-669: the number of arguments typed already, and initial_separator
TypedArguments(text_in_current_line) ==
    LET line == SubSeq(text_in_current_line, 1, Len(text_in_current_line) - 1)
        args == Strip(RemoveSpaces(SubSeq(line, LastIndex(line, "(") + 1, Len(line))))
        comma == args # <<>> /\ args[Len(args)] = ","
        rest == IF comma THEN SubSeq(args, 1, Len(args) - 1) ELSE args
        space == line # <<>> /\ line[Len(line)] = " "
    IN  IF args = <<>> THEN [n |-> 0, sep |-> <<>>]
        ELSE [n |-> IF rest # <<>> THEN Count(rest, ",") + 1 ELSE 0,
              sep |-> (IF comma THEN <<>> ELSE <<",">>)
                      \o (IF space THEN <<>> ELSE <<" ">>)]

\* re.search(r'^(.*\()([^\[\(\)]*)(.*)$', tip0): the three groups; the match is at
\* the last "(" of the line and fails when there is none
TipGroups(tip0) ==
    LET open == LastIndex(tip0, "(")
        after == SubSeq(tip0, open + 1, Len(tip0))
        stops == {i \in 1..Len(after) : after[i] \in {"[", "(", ")"}}
        n == IF stops = {} THEN Len(after)
             ELSE (CHOOSE i \in stops : \A j \in stops : i <= j) - 1
    IN  [matched |-> open # 0,
         g1 |-> SubSeq(tip0, 1, open),
         g2 |-> SubSeq(after, 1, n),
         g3 |-> SubSeq(after, n + 1, Len(after))]

\* the name a parameter p gives its placeholder (lines 684-696)
ParamVar(p) ==
    LET eq == FirstIndex(p, "=")
        var == Strip(IF eq = 0 THEN p ELSE SubSeq(p, 1, eq - 1))
        word == IF Contains(var, <<" ">>) THEN Split(var, " ")[2] ELSE var
    IN  IF word # <<>> /\ Head(word) = "$" THEN Tail(word) ELSE word

\* the placeholders of the snippet: the variables of the non-empty parameters
\* whose index is not below the number of arguments typed already
RECURSIVE Placeholders(_, _, _)
Placeholders(params, i, arguments) ==
    IF i > Len(params) THEN <<>>
    ELSE (IF Strip(params[i]) # <<>> /\ i - 1 >= arguments
          THEN <<ParamVar(Strip(params[i]))>> ELSE <<>>)
         \o Placeholders(params, i + 1, arguments)

\* snippet: None when the first line has no parameter list, else the separator
\* put before the placeholders and the placeholders ${1:..}, ${2:..}, ..
NoSnippet == [some |-> FALSE, sep |-> <<>>, vars |-> <<>>]
CallTipSnippet(calltip, text_in_current_line) ==
    LET tip0 == Split(calltip, "\n")[1]
        m == TipGroups(tip0)
        typed == TypedArguments(text_in_current_line)
        holders == Placeholders(Split(m.g2, ","), 1, typed.n)
    IN  IF ~m.matched THEN NoSnippet
        ELSE [some |-> TRUE,
              sep |-> IF typed.n # 0 /\ holders # <<>> THEN typed.sep ELSE <<>>,
              vars |-> holders]

\* measured_tips: the first line, and the other lines wrapped (the lines of the
\* model are shorter than the wrapper's width; a blank line wraps to nothing)
MeasuredTips(calltip) ==
    LET lines == Split(calltip, "\n")
    IN  <<lines[1]>> \o
        SelectSeq(SubSeq(lines, 2, Len(lines)), LAMBDA t : Strip(t) # <<>>)

\* the completions the handler stores when the view has no show_popup (line 727)
CallTipCompletions(calltip, text_in_current_line) ==
    LET tips == MeasuredTips(calltip)
        snippet == CallTipSnippet(calltip, text_in_current_line)
    IN  [i \in 1..Len(tips) |-> <<tips[i], snippet>>]

-----------------------------------------------------------------------------
(* The engine's callbacks and the deferred handlers (lines 634-796) *)

HISTORY_SIZE == 64
\* wid not in jump_history_by_window
NoDeque == << << "<None>" >> >>

\* an append that is lost
DequeAppend_Skip(q, x) == q

\* a deque without maxlen
DequeAppend_Unbounded(q, x) == Append(q, x)

\* deque([], HISTORY_SIZE).append(x)
DequeAppend(q, x) ==
    IF Len(q) >= HISTORY_SIZE THEN Append(Tail(q), x) ELSE Append(q, x)

\* what the engine can answer an evaluation with
CplnsChoices ==
    { <<>>,
      << <<S_function, <<"f", "o", "o">> >>, <<S_variable, <<"b", "a", "r">> >> >>,
      << <<S_class, <<"B">>, <<"c", "l", "s">> >> >> }
CalltipChoices == { <<"f", "(", "a", ",", " ", "b", ")", "\n", "d", "o", "c">> }
\* a signature of three parameters
Signature3 == <<"f", "(", "a", ",", " ", "b", ",", " ", "c", ")">>
\* the kinds and names of the completion entries the formatting is tried on
FormatKinds == {S_import, S_attribute, S_variable, S_function, S_class, <<"C">>}
FormatNames == {<<"a">>, <<"B">>}
FormatEntries == {<<k, n>> : k \in FormatKinds, n \in FormatNames}
FormatInputs == UNION {[1..n -> FormatEntries] : n \in 0..MaxList}
DefnsChoices ==
    { << [path |-> <<"l", "i", "b">>, line |-> 3] >>, << [path |-> <<>>, line |-> 1] >> }

\* the engine answers a trigger request: it calls on_trg_from_pos(buf, context, trg),
\* which asks for the evaluation of the trigger (lines 634-638)
OnTrgFromPos(r) ==
    /\ r \in engine
    /\ r.kind \in {"trg_from_pos", "defn_trg_from_pos"}
    /\ engine' = (engine \ {r}) \cup
           {[id |-> r.id, kind |-> "async_eval_at_trg", buf |-> r.buf, h |-> r.h,
             context |-> r.kind]}
    /\ ev' = [op |-> "on_trg_from_pos", buf |-> r.buf]
    /\ UNCHANGED <<editorVars, statusVars, settings, jump_history, deferred,
                   ci_languages, ci_buffers, heap, nreq>>

\* the engine ends a request with no callback of consequence: no trigger at the
\* position, no result, or on_document_scanned (lines 628-629)
EngineDone(r) ==
    /\ r \in engine
    /\ engine' = engine \ {r}
    /\ ev' = [op |-> "engine_done", buf |-> r.buf]
    /\ UNCHANGED <<editorVars, statusVars, settings, jump_history, deferred,
                   ci_languages, ci_buffers, heap, nreq>>

\* the engine answers an evaluation: it calls set_auto_complete_info,
\* set_call_tip_info or set_definitions_info, which defer the work (lines 737, 758, 796)
EngineEval(r, fn, data) ==
    /\ r \in engine
    /\ r.kind = "async_eval_at_trg"
    /\ \/ /\ r.context = "trg_from_pos"
          /\ fn \in {"_set_auto_complete_info", "_set_call_tip_info"}
       \/ /\ r.context = "defn_trg_from_pos"
          /\ fn = "_set_definitions_info"
    /\ engine' = engine \ {r}
    /\ deferred' = Append(deferred, [fn |-> fn, buf |-> r.buf, h |-> r.h, data |-> data])
    /\ ev' = [op |-> "engine_eval", buf |-> r.buf]
    /\ UNCHANGED <<editorVars, statusVars, settings, jump_history, ci_languages,
                   ci_buffers, heap, nreq>>

\* the test of lines 647-652 and 741-746: the handler's view exists and is the
\* buffer's view
SameView(view, buf) == view # NoView /\ view = heap[buf].vid

\* view.run_command('auto_complete', ...) when buf.cplns is not empty
AutoCompleteCalls(view, cplns) ==
    IF cplns.some THEN {[cmd |-> "auto_complete", view |-> view]} ELSE {}

\* _set_auto_complete_info (lines 740-757)
SetAutoCompleteInfo(c) ==
    LET view == HandlerView(c.h)
        buf == heap[c.buf]
        cplns == Cplns(format_completions_by_language(
                           c.data, buf.lang, buf.text_in_current_line, "object-members"))
    IN  IF SameView(view, c.buf)
        THEN /\ heap' = [heap EXCEPT ![c.buf].cplns = cplns]
             /\ ev' = [op |-> c.fn, buf |-> c.buf, applied |-> TRUE, ui |-> AutoCompleteCalls(view, cplns)]
             /\ UNCHANGED jump_history
        ELSE /\ ev' = [op |-> c.fn, buf |-> c.buf, applied |-> FALSE, ui |-> {}]
             /\ UNCHANGED <<heap, jump_history>>

\* _set_call_tip_info (lines 646-736)
SetCallTipInfo(c) ==
    LET view == HandlerView(c.h)
        buf == heap[c.buf]
        cplns == Cplns(CallTipCompletions(c.data, buf.text_in_current_line))
    IN  IF SameView(view, c.buf)
        THEN IF has_show_popup
             THEN /\ ev' = [op |-> c.fn, buf |-> c.buf, applied |-> TRUE,
                            ui |-> {[cmd |-> "show_popup", view |-> view]}]
                  /\ UNCHANGED <<heap, jump_history>>
             ELSE /\ heap' = [heap EXCEPT ![c.buf].cplns = cplns]
                  /\ ev' = [op |-> c.fn, buf |-> c.buf, applied |-> TRUE,
                            ui |-> AutoCompleteCalls(view, cplns)]
                  /\ UNCHANGED jump_history
        ELSE /\ ev' = [op |-> c.fn, buf |-> c.buf, applied |-> FALSE, ui |-> {}]
             /\ UNCHANGED <<heap, jump_history>>

\* sublime.active_window().id()
ActiveWindow == IF active_view = NoView THEN 1 ELSE WindowOf(active_view)

\* "%s:%d:%d" % (file_name, row + 1, col + 1) at view_sel[0].begin()
CurrentLocation(view) ==
    LET doc == Docs[view_doc[view]]
    IN  <<doc.file, Row(doc.text, doc.sel) + 1, Col(doc.text, doc.sel) + 1>>

\* one history shared by all windows
HistoryPut_Shared(wid, q) == [w \in Windows |-> q]

\* CodeintelHandler.jump_history_by_window[wid] (lines 785-787, 936): the histories
\* with that of window wid replaced
HistoryPut(wid, q) == [jump_history EXCEPT ![wid] = q]

\* a handler that jumps to a definition without a path
CanJump_AnyPath(view, defn) == Docs[view_doc[view]].sel # NoSel

\* the early returns of _set_definitions_info (lines 764-777): the view has a
\* selection and the first definition has a path
CanJump(view, defn) == Docs[view_doc[view]].sel # NoSel /\ defn.path # <<>>

\* _set_definitions_info (lines 761-795): the location pushed and the file opened
\* (twice) in the active window
SetDefinitionsInfo(c) ==
    LET view == HandlerView(c.h)
        defn == c.data[1]
        wid == ActiveWindow
        jump_location == <<defn.path, defn.line, 1>>
        history == IF jump_history[wid] = NoDeque THEN <<>> ELSE jump_history[wid]
    IN  IF CanJump(view, defn)
        THEN /\ jump_history' = HistoryPut(wid, DequeAppend(history, CurrentLocation(view)))
             /\ ev' = [op |-> c.fn, buf |-> c.buf, applied |-> TRUE,
                       ui |-> {[cmd |-> "open_file", window |-> wid,
                                location |-> jump_location]},
                       opens |-> 2, path |-> defn.path]
             /\ UNCHANGED heap
        ELSE /\ ev' = [op |-> c.fn, buf |-> c.buf, applied |-> FALSE, ui |-> {},
                       opens |-> 0, path |-> defn.path]
             /\ UNCHANGED <<heap, jump_history>>

\* the editor runs the oldest callback handed to sublime.set_timeout(fn, 0)
RunDeferred ==
    /\ deferred # <<>>
    /\ deferred' = Tail(deferred)
    /\ LET c == Head(deferred)
       IN  CASE c.fn = "_set_auto_complete_info" -> SetAutoCompleteInfo(c)
             [] c.fn = "_set_call_tip_info" -> SetCallTipInfo(c)
             [] c.fn = "_set_definitions_info" -> SetDefinitionsInfo(c)
    /\ UNCHANGED <<editorVars, statusVars, settings, ci_languages, ci_buffers, engine,
                   nreq>>

\* a pop that takes the oldest location
DequePop_Oldest(q) == [item |-> q[1], rest |-> Tail(q)]

\* jump_history.pop() (line 939) on a deque that is not empty
DequePop(q) == [item |-> q[Len(q)], rest |-> SubSeq(q, 1, Len(q) - 1)]

\* the command back_to_python_definition (lines 931-941), run on an open view: it
\* works on the active window, whatever its view
BackToPythonDefinition(v) ==
    LET wid == ActiveWindow
        history == jump_history[wid]
    IN  /\ v \in open_views
        /\ IF history # NoDeque /\ Len(history) > 0
           THEN /\ jump_history' = HistoryPut(wid, DequePop(history).rest)
                /\ ev' = [op |-> "back", window |-> wid,
                          ui |-> {[cmd |-> "open_file", window |-> wid,
                                   location |-> DequePop(history).item]}]
           ELSE /\ UNCHANGED jump_history
                /\ ev' = [op |-> "back", window |-> wid, ui |-> {}]
        /\ UNCHANGED <<editorVars, statusVars, settings, deferred, ci_languages,
                       ci_buffers, heap, engine, nreq>>

\* the user moves the cursor of view v, which then shows snapshot d; the editor calls
\* on_selection_modified (lines 892-893), which does nothing
OnSelectionModified(v, d) ==
    /\ v \in open_views
    /\ view_doc[v] # d
    /\ view_doc' = [view_doc EXCEPT ![v] = d]
    /\ ev' = [op |-> "on_selection_modified", view |-> v]
    /\ UNCHANGED <<active_view, open_views, view_syntax, has_show_popup, statusVars,
                   sessionVars>>

-----------------------------------------------------------------------------
(* The command codeintel_complete_commit (lines 944-968) *)

\* the characters the key bindings pass to the command
CommitChars == {"(", "=", ".", "a"}

\* buf.cpln_fillup_chars and buf.cpln_stop_chars, attributes the engine gives the
\* Buffer of a language: sets of characters
FillupChoices == {{}, {"(", "."}}
StopChoices == {{}, {"=", "."}}

\* the stop characters of a view without a Buffer (line 954), of CommitChars
DefaultStopChars == {"(", "=", "."}

\* settings.get(buf.lang, 'complete_commit_fillup') (line 957): Settings.get takes
\* (setting, default, lang), so the call looks the language's name up as a setting
\* and gets the default, a non-empty string, when the settings have no such key
CommitFillupSetting(lang) ==
    IF lang \in DOMAIN settings THEN settings[lang] # FALSE ELSE TRUE

\* CodeintelCompleteCommitCommand.run(edit, character) on view v; fillup and stop are
\* the Buffer's cpln_fillup_chars and cpln_stop_chars.  Without a Buffer the test of
\* line 957 reads buf.lang of None and raises AttributeError before any command.
CompleteCommit(v, character, fillup, stop) ==
    LET r == buf_from_view(v, view_doc[v])
        cpln_fillup_chars == IF r.buf # NoBuf THEN fillup ELSE {}
        cpln_stop_chars == IF r.buf # NoBuf THEN stop ELSE DefaultStopChars
        ui == IF r.buf = NoBuf THEN <<>>
              ELSE IF CommitFillupSetting(r.heap[r.buf].lang)
                      /\ character \in cpln_fillup_chars
              THEN <<"commit_completion">> \o
                       (IF character \notin {"(", "="} THEN <<"insert">> ELSE <<>>)
              ELSE IF character \in cpln_stop_chars
              THEN <<"hide_auto_complete", "insert">>
              ELSE <<"insert">>
    IN  /\ v \in open_views
        /\ ci_buffers' = r.buffers
        /\ heap' = r.heap
        /\ ev' = [op |-> "complete_commit", view |-> v, buf |-> r.buf,
                  character |-> character, raised |-> r.buf = NoBuf, ui |-> ui]
        /\ UNCHANGED <<editorVars, statusVars, settings, jump_history, deferred,
                       ci_languages, engine, nreq>>

-----------------------------------------------------------------------------

Init ==
    /\ active_view = 1
    /\ open_views = Views
    /\ view_syntax = [v \in Views |-> "Python Django"]
    /\ view_doc = [v \in Views |-> 1]
    /\ view_status = [v \in Views |-> [l \in Lids |-> NoText]]
    /\ has_show_popup \in BOOLEAN
    /\ settings = SettingsChoices[1]
    /\ status_msg = [l \in Lids |-> [ltype |-> "None", msg |-> None, order |-> 0]]
    /\ status_lineno = [l \in Lids |-> NoLine]
    /\ jump_history = [w \in Windows |-> NoDeque]
    /\ timers = {}
    /\ deferred = <<>>
    /\ ci_languages = {"Python", "PHP"}
    /\ ci_buffers = [v \in Views |-> NoBuf]
    /\ heap = <<>>
    /\ engine = {}
    /\ nreq = 0
    /\ ncalls = 0
    /\ lastReq = [l \in Lids |-> [msg |-> None, nsched |-> 0, smsg |-> None, shown |-> 0]]
    /\ ev = [op |-> "init"]

\* an editor build whose views have no show_popup (hasattr test of line 717 false)
InitNoPopup == Init /\ ~has_show_popup

\* the status line: one listener, one slot
NextStatus ==
    \/ \E ltype \in LTypes, raw \in RawMsgs :
           SetStatus(NoView, ltype, raw, "SublimeCodeIntel")
    \/ \E t \in timers : FireDisplay(t)
    \/ \E t \in timers : FireErase(t)

SpecStatus == InitNoPopup /\ [][NextStatus]_vars

\* a callback handed to sublime.set_timeout runs in this step
TimerFires == \E t \in timers : FireDisplay(t) \/ FireErase(t)

\* the status line with the editor's timers at work: as long as callbacks wait, one
\* of them is run (sublime.set_timeout runs every callback once its time has come)
SpecStatusTimers == InitNoPopup /\ [][NextStatus]_vars /\ WF_vars(TimerFires)

\* the status line of several views: the listener's set_status calls go to the view
\* that has the focus when they are made, and the user moves the focus
NextStatusViews ==
    \/ \E raw \in {<<"A", ".">>, <<"B">>} :
           SetStatus(NoView, "info", raw, "SublimeCodeIntel")
    \/ \E v \in Views : SwitchView(v)
    \/ \E t \in timers : FireDisplay(t)
    \/ \E t \in timers : FireErase(t)

SpecStatusViews == InitNoPopup /\ [][NextStatusViews]_vars

\* the commit command: the settings, the engine's languages, the syntax and the cursor
\* of view 1 change, and the user commits with a character
NextCommit ==
    \/ \E i \in 1..Len(SettingsChoices) : SettingsUpdate(i)
    \/ \E ls \in {{}, {"Python", "PHP"}} : EngineLanguages(ls)
    \/ \E syn \in Syntaxes : SetSyntax(1, syn)
    \/ \E d \in {1, 4} : OnSelectionModified(1, d)
    \/ \E character \in CommitChars, fillup \in FillupChoices, stop \in StopChoices :
           CompleteCommit(1, character, fillup, stop)

SpecCommit == InitNoPopup /\ [][NextCommit]_vars

\* the stale-response guard: the settings stay as they are, the engine is up, the
\* views keep their text
NextSession ==
    \/ \E v \in Views : SwitchView(v)
    \/ nreq < MaxReq /\ \E v \in Views : OnModified(v, view_doc[v], NoHistory)
    \/ nreq < MaxReq /\ \E v \in Views, name \in {"trg_from_pos", "defn_trg_from_pos"} :
           RunCommand(v, name)
    \/ \E v \in Views : OnClose(v)
    \/ \E r \in engine : OnTrgFromPos(r)
    \/ \E r \in engine : EngineDone(r)
    \/ \E r \in engine, data \in CplnsChoices :
           EngineEval(r, "_set_auto_complete_info", data)
    \/ \E r \in engine, data \in CalltipChoices :
           EngineEval(r, "_set_call_tip_info", data)
    \/ \E r \in engine, data \in DefnsChoices :
           EngineEval(r, "_set_definitions_info", data)
    \/ RunDeferred

SpecSession == Init /\ [][NextSession]_vars

\* the registry and the pending completions: the user types in view 1 and changes
\* its syntax, the editor asks both views for completions, views close
NextRegistry ==
    \/ \E v \in Views : SwitchView(v)
    \/ \E syn \in {"Python Django", "PHP"} : SetSyntax(1, syn)
    \/ nreq < MaxReq /\ \E d \in {1, 3} : OnModified(1, d, NoHistory)
    \/ \E v \in Views : OnQueryCompletions(v)
    \/ \E v \in Views : OnClose(v)
    \/ \E v \in Views : OnCloseAgain(v)
    \/ \E r \in engine : OnTrgFromPos(r)
    \/ \E r \in engine, data \in CplnsChoices \ {<<>>} :
           EngineEval(r, "_set_auto_complete_info", data)
    \/ RunDeferred

SpecRegistry == InitNoPopup /\ [][NextRegistry]_vars

\* the language gate: the settings, the engine's languages and the syntax of view 1
\* change; the engine answers nothing
NextGate ==
    \/ \E i \in 1..Len(SettingsChoices) : SettingsUpdate(i)
    \/ \E ls \in {{}, {"Python", "PHP"}} : EngineLanguages(ls)
    \/ \E syn \in Syntaxes : SetSyntax(1, syn)
    \/ nreq < MaxGateReq /\ \E d \in {1, 4} : OnModified(1, d, NoHistory)
    \/ nreq < MaxGateReq /\ \E dirty \in BOOLEAN : OnPreSave(1, dirty)
    \/ \E v \in Views : OnQueryCompletions(v)
    \/ nreq < MaxGateReq /\ \E name \in {"trg_from_pos", "defn_trg_from_pos"} :
           RunCommand(1, name)
    \/ \E r \in engine : EngineDone(r)

SpecGate == InitNoPopup /\ [][NextGate]_vars

\* the typing heuristic of on_modified: every command history, on view 1
NextModified ==
    \/ \E i \in {1, 2, 4} : SettingsUpdate(i)
    \/ nreq < MaxReq /\ \E d \in 1..4, h \in Histories(PrevCommands, BeforeCommands) :
           OnModified(1, d, h)
    \/ \E r \in engine : EngineDone(r)

SpecModified == InitNoPopup /\ [][NextModified]_vars

\* jumps to definitions and back, in two windows: the user moves the cursor, switches
\* views, asks for definitions and goes back
NextJump ==
    \/ \E v \in Views : SwitchView(v)
    \/ \E d \in {1, 3, 4} : OnSelectionModified(1, d)
    \/ nreq < MaxReq /\ \E v \in Views : RunCommand(v, "defn_trg_from_pos")
    \/ \E r \in engine : OnTrgFromPos(r)
    \/ \E r \in engine, data \in DefnsChoices :
           EngineEval(r, "_set_definitions_info", data)
    \/ RunDeferred
    \/ \E v \in Views : BackToPythonDefinition(v)

SpecJump == InitNoPopup /\ [][NextJump]_vars

\* the snapshot view 1 shows when the k-th definition is asked for
PatternDoc(k) == 1 + ((k - 1) % 3)

\* no request is in flight and no callback is waiting
Quiet == engine = {} /\ deferred = <<>>

\* a long walk in window 1: the user moves the cursor, asks for a definition and
\* waits for the jump, MaxGoto times over, and then goes back until nothing is left
NextHistory ==
    \/ Quiet /\ nreq < MaxGoto /\ OnSelectionModified(1, PatternDoc(nreq + 1))
    \/ /\ Quiet /\ nreq < MaxGoto /\ view_doc[1] = PatternDoc(nreq + 1)
       /\ RunCommand(1, "defn_trg_from_pos")
    \/ \E r \in engine : OnTrgFromPos(r)
    \/ \E r \in engine : EngineEval(r, "_set_definitions_info", <<[path |-> <<"l", "i", "b">>, line |-> 3]>>)
    \/ RunDeferred
    \/ Quiet /\ nreq = MaxGoto /\ BackToPythonDefinition(1)

SpecHistory == InitNoPopup /\ [][NextHistory]_vars

\* call tips: the cursor of view 1 is put in an argument list, the autocomplete
\* command asks the engine, which answers with the signature
NextCallTip ==
    \/ \E d \in TipDocIds : OnSelectionModified(1, d)
    \/ \E syn \in {"Python Django", "PHP"} : SetSyntax(1, syn)
    \/ nreq < MaxReq /\ RunCommand(1, "trg_from_pos")
    \/ \E r \in engine : OnTrgFromPos(r)
    \/ \E r \in engine : EngineEval(r, "_set_call_tip_info", Signature3)
    \/ RunDeferred
    \/ OnQueryCompletions(1)

SpecCallTip == InitNoPopup /\ [][NextCallTip]_vars

\* the formatting of completions: the engine answers the autocomplete command with
\* any list of entries; the command is run again once the list has been delivered
NextFormat ==
    \/ \E syn \in {"Python Django", "PHP"} : SetSyntax(1, syn)
    \/ /\ Quiet /\ nreq < MaxReq
       /\ \A b \in 1..Len(heap) : ~heap[b].cplns.some
       /\ RunCommand(1, "trg_from_pos")
    \/ \E r \in engine : OnTrgFromPos(r)
    \/ \E r \in engine, data \in FormatInputs :
           EngineEval(r, "_set_auto_complete_info", data)
    \/ RunDeferred
    \/ OnQueryCompletions(1)

SpecFormat == InitNoPopup /\ [][NextFormat]_vars

\* the language of the requests of SpecLanguage: the language of the syntax the view
\* has when the autocomplete command is run
IssueSyntax == "Python Django"
IssueLanguage == SyntaxMap(IssueSyntax)

\* a change of language between request and response: the command is run on view 1
\* while its syntax is IssueSyntax, the user changes the syntax, the editor asks for
\* completions (buf_from_view assigns buf.lang again), the engine answers
NextLanguage ==
    \/ \E syn \in {"Python Django", "PHP"} : SetSyntax(1, syn)
    \/ /\ nreq < MaxReq
       /\ view_syntax[1] = IssueSyntax
       /\ RunCommand(1, "trg_from_pos")
    \/ \E r \in engine : OnTrgFromPos(r)
    \/ \E r \in engine, data \in CplnsChoices :
           EngineEval(r, "_set_auto_complete_info", data)
    \/ \E r \in engine, data \in CalltipChoices :
           EngineEval(r, "_set_call_tip_info", data)
    \/ RunDeferred
    \/ OnQueryCompletions(1)

SpecLanguage == Init /\ [][NextLanguage]_vars

-----------------------------------------------------------------------------
(* The status line: C1 - C3, under SpecStatus *)

\* the timer callback t runs in this step
Fires(t) == t \in timers /\ timers' = timers \ {t}

\* the display callback t runs in this step and writes to the status line
DisplayWrites(t) == t.k = "display" /\ Fires(t) /\ status_msg' # status_msg

\* a set_status call on slot lid is made in this step
Calls(lid) == ncalls' = ncalls + 1 /\ ev'.op = "set_status" /\ ev'.lid = lid

\* C1: a display callback whose sequence number is lower than the slot's current
\* sequence number when it fires writes nothing to the status line and leaves the
\* slot's recorded message as it is.
C1_SupersededDisplayWritesNothing ==
    [][\A t \in timers :
          (t.k = "display" /\ Fires(t) /\ t.order < status_msg[t.lid].order)
              => (view_status' = view_status /\ status_msg' = status_msg)]_vars

\* a superseded display callback has fired
C1_Witness ==
    /\ ev.op = "display"
    /\ ev.order < status_msg[ev.lid].order
    /\ status_msg[ev.lid].msg # None

\* C2 as claimed: the message a display callback writes is the message of the most
\* recent set_status call on the slot, the calls that returned early included.
C2_WritesLatestCallOfAll ==
    [][\A t \in timers : DisplayWrites(t) => t.msg = lastReq[t.lid].msg]_vars

\* C2 as amended: the message a display callback writes is the message of the most
\* recent set_status call on the slot that went past the dedup test, the only calls
\* that advance the sequence number.
C2_WritesLatestSchedulingCall ==
    [][\A t \in timers : DisplayWrites(t) => t.msg = lastReq[t.lid].smsg]_vars

\* a display callback has written although a later call, a duplicate of the message
\* displayed then, asked for another message
C2_Witness ==
    /\ ev.op = "display"
    /\ status_msg[ev.lid] = [ltype |-> ev.ltype, msg |-> ev.msg, order |-> ev.order]
    /\ lastReq[ev.lid].msg # ev.msg

\* C3 as claimed: two set_status calls with the same message on a slot, with no other
\* call on the slot between them, schedule exactly one display callback in total.
C3_TwoCallsOneDisplay ==
    [][\A lid \in Lids :
          (Calls(lid) /\ lastReq[lid].msg = ev'.msg)
              => lastReq[lid].nsched + lastReq'[lid].nsched = 1]_vars

\* the display callback of the latest call on the slot has not run yet
DisplayPending(lid) ==
    \E t \in timers :
        t.k = "display" /\ t.lid = lid /\ t.order = status_msg[lid].order

\* C3 as amended: of two such calls with a non-empty message m, the second schedules
\* no display callback if m is the slot's recorded displayed message when it is made,
\* and one otherwise; when the first call's display callback has not run yet, the two
\* calls schedule two.
C3_SecondCallDedupsAgainstDisplayed ==
    [][\A lid \in Lids :
          (Calls(lid) /\ lastReq[lid].msg = ev'.msg /\ ev'.msg # <<>>)
              => /\ lastReq'[lid].nsched = IF status_msg[lid].msg = ev'.msg THEN 0 ELSE 1
                 /\ (lastReq[lid].nsched = 1 /\ DisplayPending(lid))
                        => lastReq[lid].nsched + lastReq'[lid].nsched = 2]_vars

\* the second of two calls with the same message has scheduled a second display
\* callback while the first is still to run
C3_Witness ==
    /\ ev.op = "set_status"
    /\ ev.same /\ ~ev.dedup /\ ev.msg # <<>>
    /\ Cardinality({t \in timers : t.k = "display" /\ t.lid = ev.lid /\ t.msg = ev.msg}) = 2

-----------------------------------------------------------------------------
(* Engine responses and closed views: C4, C5, C7, under SpecSession *)

\* the deferred callback of kind fn at the head of the queue runs in this step
Runs(fn) == deferred # <<>> /\ deferred' = Tail(deferred) /\ Head(deferred).fn = fn

\* the view id of the buffer the callback at the head of the queue was made for
HeadVid == heap[Head(deferred).buf].vid

\* C4: a completion or call-tip response for a buffer is applied (slot written,
\* completion list or popup opened) only if the active view's id is the buffer's view
\* id when the deferred handler runs, whether the listener or the
\* CodeintelAutoComplete command issued the request.
C4_AppliedOnlyOnActiveView ==
    [][(/\ Runs("_set_auto_complete_info") \/ Runs("_set_call_tip_info")
        /\ \/ ev'.applied
           \/ heap' # heap)
           => active_view = HeadVid]_vars

\* C5: a definitions response whose buffer's view id differs from the active view's id
\* when the deferred handler runs pushes nothing onto any navigation history and opens
\* no file.
C5_StaleDefinitionsDropped ==
    [][(Runs("_set_definitions_info") /\ active_view # HeadVid)
           => (jump_history' = jump_history /\ ev'.ui = {})]_vars

\* C7: a closed view has no registry entry, and no engine request is issued on the
\* buffer of a closed view, also when on_trg_from_pos for a request sent before the
\* close arrives after it.
C7_NoTrafficAfterClose ==
    [][/\ \A v \in Views \ open_views' : ci_buffers'[v] = NoBuf
       /\ \A r \in engine' \ engine : heap'[r.buf].vid \in open_views]_vars

\* the part of C7 about the registry alone
ClosedViewsUnregistered == \A v \in Views \ open_views : ci_buffers[v] = NoBuf

-----------------------------------------------------------------------------
(* The registry and the pending completions: C6, C8, under SpecRegistry *)

\* the pending slot of Buffer b before this step (a Buffer made in this step had none)
SlotBefore(b) == IF b <= Len(heap) THEN heap[b].cplns ELSE NoCplns

\* C6: on_query_completions on a view with a live Buffer returns the content of the
\* pending slot and leaves the slot empty, so a query that follows with no response in
\* between returns nothing; a response stored while an older set is undelivered
\* replaces that set: the slot then holds the entries of the new response alone.
C6_PendingDeliveredOnce ==
    [][/\ (ev'.op = "on_query_completions" /\ ev'.buf # NoBuf)
              => /\ ev'.ret = SlotBefore(ev'.buf)
                 /\ heap'[ev'.buf].cplns = NoCplns
       /\ (/\ ev.op = "on_query_completions" /\ ev.buf # NoBuf
           /\ ev'.op = "on_query_completions" /\ ev'.buf = ev.buf)
              => ~ev'.ret.some
       /\ (Runs("_set_auto_complete_info") /\ ev'.applied)
              => /\ Len(heap'[ev'.buf].cplns.list) = Len(Head(deferred).data)
                 /\ \A i \in 1..Len(Head(deferred).data) :
                        \E j \in 1..Len(Head(deferred).data) :
                            heap'[ev'.buf].cplns.list[i][2] =
                                get_name(Head(deferred).data[j], heap[ev'.buf].lang,
                                         "object-members",
                                         heap[ev'.buf].text_in_current_line)]_vars

\* a query has just delivered a stored set of completions and emptied the slot
C6_Witness ==
    /\ ev.op = "on_query_completions"
    /\ ev.buf # NoBuf
    /\ ev.ret.some
    /\ ~heap[ev.buf].cplns.some

\* every registry entry is a Buffer of the key's view
RegistryKeyed == \A v \in Views : ci_buffers[v] # NoBuf => heap[ci_buffers[v]].vid = v

\* a handler's buf_from_view(view v) returns a Buffer in this step
Looked(v) ==
    /\ ev'.op \in {"on_modified", "on_query_completions"}
    /\ ev'.view = v
    /\ ev'.buf # NoBuf

\* C8: the registry holds at most one Buffer per view id, each under its own vid; a
\* lookup for a view id already present returns that same Buffer, never a new one,
\* with its undelivered pending completions preserved and its language, path, text,
\* cursor position and preferences overwritten from the current editor state.
C8_RegistryReusesBuffer ==
    /\ []RegistryKeyed
    /\ [][\A v \in Views :
             (Looked(v) /\ ci_buffers[v] # NoBuf)
                 => LET b == ev'.buf
                        doc == Docs[view_doc'[v]]
                        lang == SyntaxMap(view_syntax'[v])
                    IN  /\ b = ci_buffers[v]
                        /\ ci_buffers' = ci_buffers
                        /\ Len(heap') = Len(heap)
                        /\ IF ev'.op = "on_modified"
                           THEN heap'[b].cplns = heap[b].cplns
                           ELSE ev'.ret = heap[b].cplns
                        /\ heap'[b].lang = lang
                        /\ heap'[b].text = doc.text
                        /\ heap'[b].original_pos = doc.sel
                        /\ heap'[b].pos = pos2bytes(doc.text, doc.sel)
                        /\ heap'[b].path \in {doc.file, <<"<", "U", "n", "s", "a", "v", "e", "d", ">">>}
                        /\ heap'[b].prefs = get_prefs(lang)]_vars

\* on_modified has found the view's Buffer again, with completions still pending, and
\* has overwritten its language and text
C8_Witness ==
    /\ ev.op = "on_modified"
    /\ ev.buf # NoBuf
    /\ heap[ev.buf].cplns.some
    /\ heap[ev.buf].lang = "PHP"
    /\ heap[ev.buf].text = Docs[3].text

-----------------------------------------------------------------------------
(* The language gate: C9, under SpecGate *)

\* a handler that calls buf_from_view runs on view v in this step
Handles(v) ==
    /\ ev'.op \in {"on_modified", "on_pre_save", "on_query_completions", "command"}
    /\ ev'.view = v

\* the language of view v, resolved through the syntax map, is not disabled, is one of
\* the engine's languages and has live mode on
LanguageUsable(v) ==
    LET lang == SyntaxMap(view_syntax[v])
        own == IF lang \in DOMAIN settings.language_settings
               THEN settings.language_settings[lang] ELSE <<>>
    IN  /\ lang \notin settings.disabled_languages
        /\ ~(IF "disable" \in DOMAIN own THEN own.disable ELSE settings.disable)
        /\ lang \in ci_languages
        /\ IF "live" \in DOMAIN own THEN own.live ELSE settings.live

\* C9: buf_from_view adds a registry entry and returns a Buffer only when the view's
\* language is not disabled, is among the engine's languages and has live mode on;
\* otherwise it returns nothing, the registry is unchanged and the calling handler
\* issues no engine request.
C9_GateBeforeRegistry ==
    [][\A v \in Views :
          Handles(v) =>
              /\ (ev'.buf # NoBuf \/ ci_buffers' # ci_buffers) => LanguageUsable(v)
              /\ ~LanguageUsable(v) =>
                     /\ ev'.buf = NoBuf
                     /\ ci_buffers' = ci_buffers
                     /\ heap' = heap
                     /\ engine' = engine
                     /\ nreq' = nreq]_vars

\* on_modified has called buf_from_view while the engine reports no language, and got
\* nothing
C9_Witness ==
    /\ ev.op = "on_modified"
    /\ ev.called
    /\ ev.buf = NoBuf
    /\ ci_languages = {}
    /\ ci_buffers[ev.view] = NoBuf
    /\ engine = {}

-----------------------------------------------------------------------------
(* The decision of on_modified: C10, under SpecModified *)

\* on_modified issues a trigger request in this step, the view having a command history
TriggersWithHistory ==
    /\ ev'.op = "on_modified"
    /\ ev'.hist.has
    /\ nreq' = nreq + 1

\* the character before the cursor of view v after this step is a newline or a tab
AtLineBreak(v) == CurrentChar(view_doc'[v]) \in {<<"\n">>, <<"\t">>}

\* C10 as claimed: with a command history, on_modified issues a trigger request only
\* if the character before the cursor is neither newline nor tab and the preceding
\* command is none of insert_completion, paste, a bracket or quote insert_snippet,
\* commit_completion, insert_best_completion, codeintel_complete_commit.
C10_TriggerSuppressedAfterCommands ==
    [][TriggersWithHistory =>
          /\ ~AtLineBreak(ev'.view)
          /\ ev'.hist.prev[1] \notin
                 {"insert_completion", "paste", "insert_snippet", "commit_completion",
                  "insert_best_completion", "codeintel_complete_commit"}]_vars

\* C10 as amended: with a command history, on_modified issues a trigger request only
\* if there is a character before the cursor, neither newline nor tab, there is no
\* command to redo, and the preceding command is an insert whose last character is
\* neither newline nor tab, or insert_completion, paste, codeintel_complete_commit, or
\* an insert_snippet of a bracket or quote placeholder, or commit_completion or
\* insert_best_completion that itself follows an insert or a paste.
C10_TriggerEnabledByCommands ==
    [][TriggersWithHistory =>
          LET h == ev'.hist
              name == h.prev[1]
          IN  /\ CurrentChar(view_doc'[ev'.view]) # <<>>
              /\ ~AtLineBreak(ev'.view)
              /\ ~h.redo
              /\ name \in {"insert", "insert_completion", "paste",
                           "codeintel_complete_commit", "insert_snippet",
                           "commit_completion", "insert_best_completion"}
              /\ name = "insert" => h.prev[2][Len(h.prev[2])] \notin {"\n", "\t"}
              /\ name = "insert_snippet" => h.prev[2] \in BracketSnippets
              /\ name \in {"commit_completion", "insert_best_completion"}
                     => h.before \in {"insert", "paste"}]_vars

\* on_modified has issued a trigger request right after a paste
C10_Witness ==
    /\ ev.op = "on_modified"
    /\ ev.hist.has
    /\ ev.hist.prev[1] = "paste"
    /\ ev.buf # NoBuf
    /\ \E r \in engine : r.kind = "trg_from_pos" /\ r.buf = ev.buf /\ r.id = nreq

-----------------------------------------------------------------------------
(* Typing and undo: C11, under SpecModified *)

\* the requests issued in this step
Issued == engine' \ engine

\* exactly one request of the kind is issued in this step, on the Buffer of view v
IssuesOne(kind, v) ==
    /\ nreq' = nreq + 1
    /\ Cardinality(Issued) = 1
    /\ \A r \in Issued : r.kind = kind /\ r.buf = ci_buffers'[v] /\ r.buf # NoBuf

\* no request is issued in this step
IssuesNone == nreq' = nreq /\ engine' = engine

\* previous_command is an insert of characters that end in neither newline nor tab
PlainInsert(h) ==
    h.prev[1] = "insert" /\ h.prev[2][Len(h.prev[2])] \notin {"\n", "\t"}

\* C11: with live mode on and a usable language, a modified event with a character
\* before the cursor that is neither newline nor tab, a plain character insert as
\* previous command and nothing to redo issues exactly one trigger request; every
\* modified event with a command to redo issues none.
C11_TypingTriggersUndoDoesNot ==
    [][ev'.op = "on_modified" =>
          LET v == ev'.view
              h == ev'.hist
              d == view_doc'[v]
          IN  /\ (/\ settings.live /\ ~settings.disable
                  /\ LanguageUsable(v)
                  /\ Docs[d].sel # NoSel
                  /\ CurrentChar(d) \notin {<<>>, <<"\n">>, <<"\t">>}
                  /\ h.has /\ ~h.redo /\ PlainInsert(h))
                     => IssuesOne("trg_from_pos", v)
              /\ (h.has /\ h.redo) => IssuesNone]_vars

\* on_modified has issued a trigger request after a plain insert
C11_Witness ==
    /\ ev.op = "on_modified"
    /\ ev.hist.has
    /\ ev.hist.prev = <<"insert", <<"a">> >>
    /\ ~ev.hist.redo
    /\ \E r \in engine : r.kind = "trg_from_pos" /\ r.buf = ev.buf /\ r.id = nreq

-----------------------------------------------------------------------------
(* Saving: C12, under SpecGate *)

\* the language of view v is not disabled and is one of the engine's languages
LanguageSupported(v) ==
    LET lang == SyntaxMap(view_syntax[v])
    IN  /\ lang \notin settings.disabled_languages
        /\ ~SettingsGet("disable", lang)
        /\ lang \in ci_languages

-----------------------------------------------------------------------------
(* The navigation history: C13, C15, C16, C18 under SpecJump, C14 under SpecHistory *)

\* the locations in the history of window w (none when the window has no history)
History(w) == IF jump_history[w] = NoDeque THEN <<>> ELSE jump_history[w]

\* the locations in the history of window w after this step
HistoryAfter(w) == IF jump_history'[w] = NoDeque THEN <<>> ELSE jump_history'[w]

\* the windows whose history this step changes
Touched == {w \in Windows : jump_history'[w] # jump_history[w]}

\* C13: every engine-driven jump to a definition comes with exactly one push of the
\* current cursor location onto the history of the window the jump is opened in: no
\* jump without the push, no push without the jump.
C13_JumpIffPush ==
    [][Runs("_set_definitions_info") =>
          /\ ev'.ui # {} <=> Touched # {}
          /\ ev'.opens > 0 <=> ev'.ui # {}
          /\ \A u \in ev'.ui :
                 /\ u.cmd = "open_file"
                 /\ Touched = {u.window}
                 /\ HistoryAfter(u.window) =
                        Append(History(u.window), CurrentLocation(HeadVid))]_vars

\* a definition has been jumped to, the location left behind is on the history
C13_Witness ==
    /\ ev.op = "_set_definitions_info"
    /\ ev.applied
    /\ \E u \in ev.ui : Len(History(u.window)) >= 1

\* the requests for definitions answered so far in the long walk
Done == nreq - Cardinality(engine) - Len(deferred)

\* the location pushed by the k-th jump of the long walk
PatternLocation(k) ==
    LET doc == Docs[PatternDoc(k)]
    IN  <<doc.file, Row(doc.text, doc.sel) + 1, Col(doc.text, doc.sel) + 1>>

\* C14: a window's history holds at most N = 64 locations, the most recent pushes not
\* yet popped, the oldest being dropped when a push exceeds N; pops return them in
\* reverse push order.
C14_BoundedMostRecent ==
    /\ [](LET h == History(1)
              first == IF Done > 64 THEN Done - 64 ELSE 0
          IN  /\ Len(h) <= 64
              /\ nreq < MaxGoto => Len(h) = Done - first
              /\ \A i \in 1..Len(h) : h[i] = PatternLocation(first + i))
    /\ [][ev'.op = "back" =>
             \/ History(1) = <<>> /\ ev'.ui = {}
             \/ /\ History(1) # <<>>
                /\ HistoryAfter(1) = SubSeq(History(1), 1, Len(History(1)) - 1)
                /\ \A u \in ev'.ui : u.location = History(1)[Len(History(1))]
                /\ ev'.ui # {}]_vars

\* more than N jumps were made and the history is full
C14_Witness ==
    /\ Done > HISTORY_SIZE
    /\ Quiet
    /\ Len(History(1)) = HISTORY_SIZE
    /\ History(1)[1] = PatternLocation(Done - HISTORY_SIZE + 1)

\* C15: the back command on a window whose history is empty or absent opens no file
\* and leaves every history unchanged; on a non-empty history it removes exactly one
\* entry, the most recently pushed location, and opens that location.
C15_BackPopsLast ==
    [][ev'.op = "back" =>
          LET w == ActiveWindow
              h == History(w)
          IN  IF h = <<>>
              THEN ev'.ui = {} /\ jump_history' = jump_history
              ELSE /\ HistoryAfter(w) = SubSeq(h, 1, Len(h) - 1)
                   /\ Touched = {w}
                   /\ ev'.ui = {[cmd |-> "open_file", window |-> w,
                                 location |-> h[Len(h)]]}]_vars

\* the back command has opened a location and another one, different, is left
C15_Witness ==
    /\ ev.op = "back"
    /\ \E u \in ev.ui :
           /\ Len(History(u.window)) >= 1
           /\ History(u.window)[1] # u.location

\* C16: a push or a pop on window w leaves the history of every other window unchanged.
C16_WindowsIsolated ==
    [][/\ Cardinality(Touched) <= 1
       /\ Touched \subseteq {ActiveWindow}]_vars

\* a push or a pop has just happened in one window while the other has a location
C16_Witness ==
    /\ ev.op \in {"back", "_set_definitions_info"}
    /\ ev.ui # {}
    /\ \E u \in ev.ui : \E w \in Windows \ {u.window} : Len(History(w)) >= 1

\* C18: a definitions response whose first candidate has no path leaves every window's
\* history unchanged and opens no file.
C18_NoPathNoJump ==
    [][(Runs("_set_definitions_info") /\ Head(deferred).data[1].path = <<>>)
           => (jump_history' = jump_history /\ ev'.ui = {} /\ ev'.opens = 0)]_vars

\* a response without a path has been handled, on a view with a selection
C18_Witness ==
    /\ ev.op = "_set_definitions_info"
    /\ ev.path = <<>>
    /\ ~ev.applied
    /\ \A v \in open_views : Docs[view_doc[v]].sel # NoSel

-----------------------------------------------------------------------------
(* Closing twice: C17, under SpecRegistry *)

\* C17: on_close on a view without registry entry raises no error and changes
\* nothing; closing a view twice has the effect of closing it once; the Buffers of
\* the other views are unchanged.
C17_CloseIdempotent ==
    [][ev'.op = "on_close" =>
          /\ ~ev'.raised
          /\ ci_buffers'[ev'.view] = NoBuf
          /\ \A w \in Views \ {ev'.view} : ci_buffers'[w] = ci_buffers[w]
          /\ heap' = heap
          /\ ci_buffers[ev'.view] = NoBuf => ci_buffers' = ci_buffers
          /\ (ev.op = "on_close" /\ ev.view = ev'.view)
                 => (ci_buffers' = ci_buffers /\ engine' = engine)]_vars

\* on_close has been called again for a closed view while the other view has a Buffer
C17_Witness ==
    /\ ev.op = "on_close"
    /\ ~ev.was_open
    /\ \E w \in Views \ {ev.view} : ci_buffers[w] # NoBuf

-----------------------------------------------------------------------------
(* Call tips: C19, under SpecCallTip *)

\* the index of the innermost "(" of s that is still open at the end of s, or 0;
\* closed counts the ")" met, from the end, that wait for their "("
RECURSIVE InnermostOpen(_, _, _)
InnermostOpen(s, i, closed) ==
    IF i = 0 THEN 0
    ELSE IF s[i] = ")" THEN InnermostOpen(s, i - 1, closed + 1)
    ELSE IF s[i] = "(" THEN (IF closed = 0 THEN i ELSE InnermostOpen(s, i - 1, closed - 1))
    ELSE InnermostOpen(s, i - 1, closed)

\* the positions of the commas of s that are in no parenthesis of s
RECURSIVE OuterCommas(_, _, _)
OuterCommas(s, i, depth) ==
    IF i > Len(s) THEN {}
    ELSE IF s[i] = "(" THEN OuterCommas(s, i + 1, depth + 1)
    ELSE IF s[i] = ")" THEN OuterCommas(s, i + 1, depth - 1)
    ELSE (IF s[i] = "," /\ depth = 0 THEN {i} ELSE {}) \cup OuterCommas(s, i + 1, depth)

\* the arguments typed before the cursor, counted as C19 says: the commas inside the
\* innermost open parenthesis, plus one when text follows the last of them
ArgumentsBeforeCursor(before) ==
    LET inside == SubSeq(before, InnermostOpen(before, Len(before), 0) + 1, Len(before))
        commas == OuterCommas(inside, 1, 0)
        last == IF commas = {} THEN 0 ELSE CHOOSE i \in commas : \A j \in commas : j <= i
    IN  Cardinality(commas)
            + (IF \E i \in (last + 1)..Len(inside) : inside[i] # " " THEN 1 ELSE 0)

\* the parameter names of the signature on the first line of a call tip
SignatureParams(calltip) ==
    LET ps == Split(TipGroups(Split(calltip, "\n")[1]).g2, ",")
    IN  [i \in 1..Len(ps) |-> Strip(ps[i])]

\* the text of the Buffer's current line up to the cursor
LineBeforeCursor(buf) ==
    SubSeq(buf.text, LineBegin(buf.text, buf.original_pos) + 1, buf.original_pos)

\* C19: the arguments counted as typed are the commas before the cursor inside the
\* innermost open parenthesis (plus one when text follows the last comma), and exactly
\* the parameters after that count become placeholders of the snippet, also when an
\* earlier argument is a call with commas and when the cursor is at the end of the
\* buffer.
C19_RemainingParametersArePlaceholders ==
    [][(Runs("_set_call_tip_info") /\ ev'.applied) =>
          LET buf == heap[ev'.buf]
              before == LineBeforeCursor(buf)
              params == SignatureParams(Head(deferred).data)
              typed == ArgumentsBeforeCursor(before)
          IN  InnermostOpen(before, Len(before), 0) # 0 =>
                  /\ heap'[ev'.buf].cplns.some
                  /\ heap'[ev'.buf].cplns.list[1][2].vars =
                         SubSeq(params, typed + 1, Len(params))]_vars

-----------------------------------------------------------------------------
(* The order of completions: C20, under SpecFormat *)

\* the one-to-one maps of 1..n
Orderings(n) == {p \in [1..n -> 1..n] : \A i, j \in 1..n : p[i] = p[j] => i = j}

\* the category C20 gives an entry: import, attribute or variable, function, or else
\* the kind itself
Category(c) ==
    IF c[1] = S_import THEN "import"
    ELSE IF c[1] \in {S_attribute, S_variable} THEN "member"
    ELSE IF c[1] = S_function THEN "function"
    ELSE "other"

\* the order C20 requires of a list of entries
InCategoryOrder(s) ==
    \A i, j \in 1..Len(s) :
        i < j =>
            /\ Category(s[j]) = "import" => Category(s[i]) = "import"
            /\ Category(s[j]) = "member" => Category(s[i]) # "function"
            /\ (Category(s[i]) = Category(s[j])
                    /\ (Category(s[i]) = "other" => s[i][1] = s[j][1]))
                   => ~StrLess(s[j][2], s[i][2])

\* C20: format_completions_by_language returns a permutation of the entries in which
\* every import entry precedes every entry of another kind, every attribute or
\* variable entry precedes every function entry, and the entries of one category are
\* ordered by name, whatever the kind strings are.
C20_SortedByCategoryThenName ==
    [][(Runs("_set_auto_complete_info") /\ ev'.applied) =>
          LET inp == Head(deferred).data
              out == heap'[ev'.buf].cplns.list
          IN  /\ Len(out) = Len(inp)
              /\ \E p \in Orderings(Len(inp)) :
                     /\ \A i \in 1..Len(inp) :
                            /\ out[i][1][1] = get_desc(inp[p[i]])
                            /\ out[i][1][2] = get_type(inp[p[i]])
                     /\ InCategoryOrder([i \in 1..Len(inp) |-> inp[p[i]]])]_vars

-----------------------------------------------------------------------------
(* Responses after a change of language: C21, under SpecLanguage *)

\* C21: a completion or call-tip response to a request issued while the buffer's
\* language was L (IssueLanguage, in SpecLanguage) is discarded, not applied, if the
\* buffer's language is another one when the response is delivered: the Buffer keeps
\* its completions and no command is run on the view.
C21_OtherLanguageDiscarded ==
    [][\A fn \in {"_set_auto_complete_info", "_set_call_tip_info"} :
          (Runs(fn) /\ heap[Head(deferred).buf].lang # IssueLanguage)
              => (~ev'.applied /\ ev'.ui = {} /\ heap' = heap)]_vars

-----------------------------------------------------------------------------
(* The status lock: C22, under SpecStatus *)

\* the status lock is held when the i-th call of steps is made
LockHeldAt(steps, i) ==
    Cardinality({j \in 1..(i - 1) : steps[j] = "acquire"})
        > Cardinality({j \in 1..(i - 1) : steps[j] = "release"})

\* C22: the status lock is held only around the bookkeeping of the slot: it is not
\* held when set_status or one of its callbacks writes or erases the editor's status
\* line, nor when a callback is handed to sublime.set_timeout.
C22_LockNotHeldAcrossEditorCalls ==
    ev.op \in {"set_status", "display", "erase"} =>
        \A i \in 1..Len(ev.steps) :
            ev.steps[i] \in {"view.set_status", "view.erase_status", "set_timeout"}
                => ~LockHeldAt(ev.steps, i)

-----------------------------------------------------------------------------
(* Erase callbacks: C23 - C24, under SpecStatus *)

\* the erase callback t runs in this step and clears the status line
EraseClears(t) == t.k = "erase" /\ Fires(t) /\ status_msg'[t.lid].msg # status_msg[t.lid].msg

\* C23: an erase callback scheduled by an earlier set_status call never clears a
\* message that the display callback of a later call on the slot has written; in
\* the calls A, B, A the erase callback of the first call leaves the message of the
\* third where it is.
C23_EraseSparesLaterMessage ==
    [][\A t \in timers :
          (t.k = "erase" /\ Fires(t) /\ lastReq[t.lid].shown > t.order)
              => (view_status' = view_status /\ status_msg' = status_msg)]_vars

\* the calls of steps, as a set
StepsOf(e) == {e.steps[i] : i \in 1..Len(e.steps)}

\* C24: an erase callback clears the status line and resets the slot's recorded
\* message to none if and only if the recorded message is the message the callback
\* was scheduled for; otherwise it leaves the status line, the recorded message and
\* the sequence number as they are.  The sequence number stays in both cases.
C24_EraseIffRecordedIsOwn ==
    [][\A t \in timers :
          (t.k = "erase" /\ Fires(t)) =>
              IF t.msg = status_msg[t.lid].msg
              THEN /\ view_status' = [view_status EXCEPT ![t.view][t.lid] = NoText]
                   /\ status_msg' = [status_msg EXCEPT ![t.lid].msg = None]
                   /\ EraseClears(t)
              ELSE /\ view_status' = view_status
                   /\ status_msg' = status_msg
                   /\ ~EraseClears(t)]_vars

\* an erase callback has cleared the message it was scheduled for, and the slot is
\* back to no message with its sequence number kept
C24_Witness ==
    /\ ev.op = "erase"
    /\ "view.erase_status" \in StepsOf(ev)
    /\ status_msg[ev.lid].msg = None
    /\ status_msg[ev.lid].order >= ev.order
    /\ \A v \in Views : view_status[v][ev.lid] = NoText

-----------------------------------------------------------------------------
(* Dedup and sequence numbers: C25 - C27, under SpecStatus *)

\* C25: a set_status call whose stripped message is the slot's displayed message
\* changes nothing: sequence number and recorded message stay, no display or erase
\* callback is scheduled and the status line is not touched.
C25_DuplicateCallIsNoOp ==
    [][\A lid \in Lids :
          (Calls(lid) /\ ev'.msg = status_msg[lid].msg)
              => /\ status_msg' = status_msg
                 /\ timers' = timers
                 /\ view_status' = view_status
                 /\ status_lineno' = status_lineno
                 /\ ~("set_timeout" \in StepsOf(ev'))]_vars

\* a call has been deduplicated against the displayed message, which it gave with
\* spaces around it or as it is
C25_Witness ==
    /\ ev.op = "set_status"
    /\ ev.dedup
    /\ ev.msg # <<>>
    /\ status_msg[ev.lid].msg = ev.msg
    /\ view_status[active_view][ev.lid] # NoText

\* C26: a slot's sequence number never decreases: a set_status call on the slot that
\* is not a dedup no-op increases it by exactly one, a dedup no-op and the display and
\* erase callbacks leave it as it is.
C26_SequenceNumberGrowsByCalls ==
    [][\A lid \in Lids :
          /\ status_msg'[lid].order >= status_msg[lid].order
          /\ Calls(lid) =>
                 status_msg'[lid].order =
                     IF ev'.msg = status_msg[lid].msg THEN status_msg[lid].order
                     ELSE status_msg[lid].order + 1
          /\ (\E t \in timers : Fires(t)) => status_msg'[lid].order = status_msg[lid].order
      ]_vars

\* a display callback has written after three calls on a slot advanced its sequence
\* number to three
C26_Witness ==
    /\ ev.op = "display"
    /\ "view.set_status" \in StepsOf(ev)
    /\ ev.order = 3
    /\ status_msg[ev.lid].order = 3

\* C27: the display callback of a debug message never writes to the status line and
\* never changes the slot's recorded message.
C27_DebugNeverShown ==
    [][\A t \in timers :
          (t.k = "display" /\ Fires(t) /\ t.ltype = "debug")
              => (view_status' = view_status /\ status_msg' = status_msg)]_vars

\* the display callback of a debug message has passed the test of its sequence number
\* and logged the message
C27_Witness ==
    /\ ev.op = "display"
    /\ ev.ltype = "debug"
    /\ "log" \in StepsOf(ev)
    /\ status_msg[ev.lid].msg # ev.msg

-----------------------------------------------------------------------------
(* The life of a slot: C28, under SpecStatusTimers *)

\* the slot records no displayed message
Idle(lid) == status_msg[lid].msg = None

\* C28: once the set_status calls on a slot have stopped and every callback has run,
\* the slot is back to Idle for good, in whatever order the display and erase
\* callbacks of the calls run (the order the delays and timeouts of the calls give).
C28_SlotReturnsToIdle ==
    \A lid \in Lids : <>[]Idle(lid)

-----------------------------------------------------------------------------
(* The status lines of several views: C29, under SpecStatusViews *)

\* C29: whatever a view's status line shows for a slot is the slot's recorded
\* message in the process-wide status_msg: no view keeps a message the slot has
\* left for another message or for none.
C29_ShownIsRecorded ==
    \A v \in Views, lid \in Lids :
        \/ view_status[v][lid] = NoText
        \/ /\ status_msg[lid].msg # None
           /\ view_status[v][lid] =
                  StatusText(lid, status_msg[lid].ltype, status_msg[lid].msg)

-----------------------------------------------------------------------------
(* The commit command: C30, under SpecCommit *)

\* the number of times the command ran 'insert'
Inserted(e) == Cardinality({i \in 1..Len(e.ui) : e.ui[i] = "insert"})

\* the command committed the completion with a fill-up character
FillupCommit(e) == \E i \in 1..Len(e.ui) : e.ui[i] = "commit_completion"

\* C30: codeintel_complete_commit raises no error and inserts the typed character
\* exactly once, except in a fill-up commit with "(" or "=", also for a view without
\* a Buffer, where the default stop characters are used.
C30_CommitInsertsOnce ==
    ev.op = "complete_commit" =>
        /\ ~ev.raised
        /\ Inserted(ev) =
               IF FillupCommit(ev) /\ ev.character \in {"(", "="} THEN 0 ELSE 1

=============================================================================
